---- MODULE Spec2Model ----
(***************************************************************************)
(* Model of hhnk_research_tools:                                           *)
(*   - gis/interactive_map.py : create_interactive_map, statement by       *)
(*     statement (one action per statement group, pc = position).          *)
(*   - logger.py : add_file_handler on one logger.                         *)
(*                                                                         *)
(* Numbers of the value column are integers in thousandths (1234 stands    *)
(* for 1.234), so rounding to 2 decimals is rounding to a multiple of 10.  *)
(* An optional Python argument is None (the empty tuple) or Some(v) (the   *)
(* one-element tuple <<v>>); isinstance(x, list/int/str) is a test on it.  *)
(***************************************************************************)
EXTENDS Integers, Sequences, FiniteSets, TLC

VARIABLES
    callerGdf,    \* the GeoDataFrame object the caller owns (rows, in order)
    gdfAtCall,    \* history: the caller's rows when the running call was entered
    optimized,    \* the interpreter runs with -O (assert statements are stripped)
    args,         \* the arguments of the running call
    pc,           \* position in create_interactive_map
    gdf,          \* local name gdf (rows of the frame it is bound to)
    data_min,     \* local data_min
    data_max,     \* local data_max
    colormap,     \* local colormap
    fields,       \* local fields
    aliases,      \* local aliases
    m,            \* local m, the folium map being built
    saved,        \* what m.save wrote during the running call
    result,       \* the value the call returned
    err,          \* the exception that ended the call ("" = none)
    failedAt,     \* the position at which err was raised
    handlers,     \* logger.handlers of the one logger of the logger model
    fhCalls       \* number of add_file_handler calls made

mapVars == <<callerGdf, gdfAtCall, optimized, args, pc, gdf, data_min, data_max,
             colormap, fields, aliases, m, saved, result, err, failedAt>>
logVars == <<handlers, fhCalls>>
vars == <<mapVars, logVars>>

----------------------------------------------------------------------------
(* Bounds and input sets *)

MaxRows == 2

\* Values of the value column, in thousandths: -1.235, 1.234, 2.000
Vals == {-1235, 1234, 2000}

NaN == 999999

None == <<>>
Some(v) == <<v>>
IsGiven(x) == x # None
Get(x) == x[1]

Range(s) == {s[i] : i \in DOMAIN s}

IsNaN(v) == v = NaN

\* A row of the frame: its geometry (one polygon per row, named by a number),
\* the value column "val" and a text column "label".
Row(g, v) == [geometry |-> g, val |-> v, label |-> "label"]

AllGdfs == UNION {[1..n -> Vals \cup {NaN}] : n \in 0..MaxRows}
FrameOf(f) == [i \in DOMAIN f |-> Row(i, f[i])]

NumericColumns == {"val"}
KnownColormaps == {"viridis", "plasma"}

ArgSets ==
    [datacolumn      : {"val"},
     colormap_name   : {"viridis", "nope"},
     colormap_steps  : {None, Some(3)},
     output_path     : {None,
                        Some([type |-> "str",  path |-> "map.html"]),
                        Some([type |-> "str",  path |-> "/readonly/map.html"]),
                        Some([type |-> "Path", path |-> "map.html"])},
     title           : {"Title"},
     legend_label    : {"Label"},
     quantiles       : {None, Some(<<0, 50, 80, 100>>)},
     tooltip_columns : {None, Some(<<"val">>), Some(<<"label">>), Some(<<"val", "label">>)},
     tooltip_aliases : {None, Some(<<"A">>), Some(<<"A", "B">>)},
     show            : BOOLEAN]

NoArgs ==
    [datacolumn |-> "val", colormap_name |-> "plasma", colormap_steps |-> None,
     output_path |-> None, title |-> "Title", legend_label |-> "Label",
     quantiles |-> None, tooltip_columns |-> None, tooltip_aliases |-> None,
     show |-> TRUE]

----------------------------------------------------------------------------
(* Pure helpers of create_interactive_map *)

\* Mutant of DropNa: a dropna on another column drops nothing
DropNaOtherColumn(rows, col) == SelectSeq(rows, LAMBDA r : ~IsNaN(r["geometry"]))

\* DataFrame.dropna(subset=[col]): the rows whose col is not missing, in order
DropNa(rows, col) == SelectSeq(rows, LAMBDA r : ~IsNaN(r[col]))

\* round(2) of one number in thousandths: to the nearest multiple of 10,
\* a tie going to the even hundredth (numpy's rounding)
Round2(v) ==
    IF IsNaN(v) THEN NaN
    ELSE LET q == v \div 10
             r == v % 10
         IN  IF r < 5 THEN q * 10
             ELSE IF r > 5 THEN (q + 1) * 10
             ELSE IF q % 2 = 0 THEN q * 10 ELSE (q + 1) * 10

\* DataFrame.round(2): a new frame, every numeric column rounded
RoundFrame(rows) ==
    [i \in DOMAIN rows |->
        [c \in DOMAIN rows[i] |->
            IF c \in NumericColumns THEN Round2(rows[i][c]) ELSE rows[i][c]]]

Column(rows, col) == [i \in DOMAIN rows |-> rows[i][col]]

\* Series.min() / Series.max(): NaN for an empty series
SeriesMin(s) ==
    IF Len(s) = 0 THEN NaN
    ELSE CHOOSE x \in Range(s) : \A y \in Range(s) : x <= y
SeriesMax(s) ==
    IF Len(s) = 0 THEN NaN
    ELSE CHOOSE x \in Range(s) : \A y \in Range(s) : x >= y

\* gdf[["geometry"] + cols]: the same rows, restricted to these columns
SelectColumns(rows, cols) ==
    [i \in DOMAIN rows |-> [c \in Range(cols) |-> rows[i][c]]]

NoColormap ==
    [kind |-> "none", name |-> "", vmin |-> 0, vmax |-> 0, method |-> "",
     n |-> 0, quantiles |-> <<>>, data |-> <<>>, caption |-> ""]

\* getattr(cm.linear, name).scale(lo, hi)
LinearScaled(name, lo, hi) ==
    [NoColormap EXCEPT !.kind = "linear", !.name = name, !.vmin = lo, !.vmax = hi]

\* colormap.to_step(data=..., quantiles=...)
ToStepQuantiles(cmap, data, q) ==
    [cmap EXCEPT !.kind = "step", !.method = "quantiles", !.quantiles = q, !.data = data]

\* colormap.to_step(n)
ToStepN(cmap, n) ==
    [cmap EXCEPT !.kind = "step", !.method = "linear", !.n = n,
                 !.quantiles = <<>>, !.data = <<>>]

NoLayer == [present |-> FALSE, rows |-> <<>>, name |-> "", fields |-> <<>>, aliases |-> <<>>]

NoMap ==
    [created |-> FALSE, tiles |-> "", overlays |-> <<>>, data |-> NoLayer,
     legend |-> NoColormap, layerControl |-> FALSE, title |-> ""]

NoSave == [written |-> FALSE, path |-> "", artifact |-> NoMap]

\* The file system refuses to write below /readonly
Writable(path) == path # "/readonly/map.html"

\* Mutant of StepAfter: the scale bar is attached before the GeoJson layer
StepAfterLegendFirst(p) ==
    CASE p = "dropna"       -> "round"
      [] p = "round"        -> "minmax"
      [] p = "minmax"       -> "palette"
      [] p = "palette"      -> "quantiles"
      [] p = "quantiles"    -> "steps"
      [] p = "steps"        -> "tooltip"
      [] p = "tooltip"      -> "map"
      [] p = "map"          -> "legend"
      [] p = "legend"       -> "geojson"
      [] p = "geojson"      -> "layercontrol"
      [] p = "layercontrol" -> "title"
      [] p = "title"        -> "save"
      [] p = "save"         -> "return"
      [] p = "return"       -> "done"

\* The order of the statements of create_interactive_map
StepAfter(p) ==
    CASE p = "dropna"       -> "round"
      [] p = "round"        -> "minmax"
      [] p = "minmax"       -> "palette"
      [] p = "palette"      -> "quantiles"
      [] p = "quantiles"    -> "steps"
      [] p = "steps"        -> "tooltip"
      [] p = "tooltip"      -> "map"
      [] p = "map"          -> "geojson"
      [] p = "geojson"      -> "legend"
      [] p = "legend"       -> "layercontrol"
      [] p = "layercontrol" -> "title"
      [] p = "title"        -> "save"
      [] p = "save"         -> "return"
      [] p = "return"       -> "done"

----------------------------------------------------------------------------
(* create_interactive_map *)

Raise(e) ==
    /\ err' = e
    /\ failedAt' = pc
    /\ pc' = "failed"

Advance ==
    /\ pc' = StepAfter(pc)
    /\ UNCHANGED <<err, failedAt>>

\* The caller calls create_interactive_map(gdf, ...) on the frame it owns
Call ==
    /\ pc = "idle"
    /\ \E a \in ArgSets : args' = a
    /\ gdfAtCall' = callerGdf
    /\ gdf' = callerGdf
    /\ pc' = "dropna"
    /\ data_min' = NaN /\ data_max' = NaN
    /\ colormap' = NoColormap
    /\ fields' = <<>> /\ aliases' = <<>>
    /\ m' = NoMap
    /\ saved' = NoSave
    /\ result' = NoMap
    /\ err' = "" /\ failedAt' = ""
    /\ UNCHANGED <<callerGdf, optimized, logVars>>

\* line 69: gdf.dropna(subset=[datacolumn], inplace=True); gdf is still the
\* caller's object, so the rows leave the caller's frame
StepDropNa ==
    /\ pc = "dropna"
    /\ callerGdf' = DropNa(gdf, args.datacolumn)
    /\ gdf' = callerGdf'
    /\ Advance
    /\ UNCHANGED <<gdfAtCall, optimized, args, data_min, data_max, colormap,
                   fields, aliases, m, saved, result, logVars>>

\* line 72: gdf = gdf.round(2); gdf now names a new frame
StepRound ==
    /\ pc = "round"
    /\ gdf' = RoundFrame(gdf)
    /\ Advance
    /\ UNCHANGED <<callerGdf, gdfAtCall, optimized, args, data_min, data_max,
                   colormap, fields, aliases, m, saved, result, logVars>>

\* lines 75-76
StepMinMax ==
    /\ pc = "minmax"
    /\ data_min' = SeriesMin(Column(gdf, args.datacolumn))
    /\ data_max' = SeriesMax(Column(gdf, args.datacolumn))
    /\ Advance
    /\ UNCHANGED <<callerGdf, gdfAtCall, optimized, args, gdf, colormap, fields,
                   aliases, m, saved, result, logVars>>

\* lines 79-80: getattr raises AttributeError for a name cm.linear does not have
StepPalette ==
    /\ pc = "palette"
    /\ IF args.colormap_name \in KnownColormaps
       THEN /\ colormap' = LinearScaled(args.colormap_name, data_min, data_max)
            /\ Advance
       ELSE /\ Raise("AttributeError")
            /\ UNCHANGED colormap
    /\ UNCHANGED <<callerGdf, gdfAtCall, optimized, args, gdf, data_min, data_max,
                   fields, aliases, m, saved, result, logVars>>

\* lines 83-87: to_step takes max(data) and min(data), a ValueError on no data
StepQuantiles ==
    /\ pc = "quantiles"
    /\ IF IsGiven(args.quantiles)
       THEN IF Len(gdf) = 0
            THEN /\ Raise("ValueError")
                 /\ UNCHANGED colormap
            ELSE /\ colormap' = ToStepQuantiles(colormap, Column(gdf, args.datacolumn),
                                                Get(args.quantiles))
                 /\ Advance
       ELSE /\ Advance
            /\ UNCHANGED colormap
    /\ UNCHANGED <<callerGdf, gdfAtCall, optimized, args, gdf, data_min, data_max,
                   fields, aliases, m, saved, result, logVars>>

\* lines 90-91: a second, independent if. On the linear colormap to_step(n)
\* gives n even steps. On the stepped colormap the quantiles left, the call
\* is made on an object of another class: with a to_step it replaces the
\* quantile steps by n even ones, without one it is an AttributeError.
StepSteps ==
    /\ pc = "steps"
    /\ IF IsGiven(args.colormap_steps)
       THEN IF colormap.kind = "linear"
            THEN /\ colormap' = ToStepN(colormap, Get(args.colormap_steps))
                 /\ Advance
            ELSE \/ /\ colormap' = ToStepN(colormap, Get(args.colormap_steps))
                    /\ Advance
                 \/ /\ Raise("AttributeError")
                    /\ UNCHANGED colormap
       ELSE /\ Advance
            /\ UNCHANGED colormap
    /\ UNCHANGED <<callerGdf, gdfAtCall, optimized, args, gdf, data_min, data_max,
                   fields, aliases, m, saved, result, logVars>>

\* lines 101-104
TooltipAliases(tooltip_aliases, tooltip_columns, legend_label) ==
    IF IsGiven(tooltip_aliases) THEN Get(tooltip_aliases) ELSE <<legend_label>>

\* lines 94-104
StepTooltip ==
    /\ pc = "tooltip"
    /\ IF IsGiven(args.tooltip_columns)
       THEN /\ gdf' = SelectColumns(gdf, <<"geometry">> \o Get(args.tooltip_columns))
            /\ fields' = Get(args.tooltip_columns)
       ELSE /\ gdf' = SelectColumns(gdf, <<"geometry", args.datacolumn>>)
            /\ fields' = <<args.datacolumn>>
    /\ aliases' = TooltipAliases(args.tooltip_aliases, args.tooltip_columns,
                                 args.legend_label)
    /\ Advance
    /\ UNCHANGED <<callerGdf, gdfAtCall, optimized, args, data_min, data_max,
                   colormap, m, saved, result, logVars>>

\* lines 108-111: the base map and the water layer
StepMap ==
    /\ pc = "map"
    /\ m' = [NoMap EXCEPT !.created = TRUE, !.tiles = "nlmaps.luchtfoto",
                          !.overlays = <<"nlmaps.water">>]
    /\ Advance
    /\ UNCHANGED <<callerGdf, gdfAtCall, optimized, args, gdf, data_min, data_max,
                   colormap, fields, aliases, saved, result, logVars>>

\* lines 114-127. The arguments are evaluated first: GeoJsonTooltip is handed
\* fields and aliases as they are, and objects to unequal lengths with an
\* assert statement only (no check under -O). GeoJson then calls the style
\* function of line 117 on its first feature, a KeyError when the feature has
\* no datacolumn property.
StepGeoJson ==
    /\ pc = "geojson"
    /\ IF Len(fields) # Len(aliases) /\ ~optimized
       THEN /\ Raise("AssertionError")
            /\ UNCHANGED m
       ELSE IF Len(gdf) > 0 /\ args.datacolumn \notin DOMAIN gdf[1]
       THEN /\ Raise("KeyError")
            /\ UNCHANGED m
       ELSE /\ m' = [m EXCEPT !.data = [present |-> TRUE, rows |-> gdf,
                                        name |-> args.legend_label,
                                        fields |-> fields, aliases |-> aliases]]
            /\ Advance
    /\ UNCHANGED <<callerGdf, gdfAtCall, optimized, args, gdf, data_min, data_max,
                   colormap, fields, aliases, saved, result, logVars>>

\* lines 130-131: the scale bar
StepLegend ==
    /\ pc = "legend"
    /\ colormap' = [colormap EXCEPT !.caption = args.legend_label]
    /\ m' = [m EXCEPT !.legend = colormap']
    /\ Advance
    /\ UNCHANGED <<callerGdf, gdfAtCall, optimized, args, gdf, data_min, data_max,
                   fields, aliases, saved, result, logVars>>

\* line 134
StepLayerControl ==
    /\ pc = "layercontrol"
    /\ m' = [m EXCEPT !.layerControl = TRUE]
    /\ Advance
    /\ UNCHANGED <<callerGdf, gdfAtCall, optimized, args, gdf, data_min, data_max,
                   colormap, fields, aliases, saved, result, logVars>>

\* lines 137-138
StepTitle ==
    /\ pc = "title"
    /\ m' = [m EXCEPT !.title = args.title]
    /\ Advance
    /\ UNCHANGED <<callerGdf, gdfAtCall, optimized, args, gdf, data_min, data_max,
                   colormap, fields, aliases, saved, result, logVars>>

\* line 140: isinstance(output_path, str)
SavesTo(output_path) == IsGiven(output_path) /\ Get(output_path).type = "str"

\* lines 140-142
StepSave ==
    /\ pc = "save"
    /\ IF SavesTo(args.output_path)
       THEN IF Writable(Get(args.output_path).path)
            THEN /\ saved' = [written |-> TRUE, path |-> Get(args.output_path).path,
                              artifact |-> m]
                 /\ Advance
            ELSE /\ Raise("OSError")
                 /\ UNCHANGED saved
       ELSE /\ Advance
            /\ UNCHANGED saved
    /\ UNCHANGED <<callerGdf, gdfAtCall, optimized, args, gdf, data_min, data_max,
                   colormap, fields, aliases, m, result, logVars>>

\* lines 144-145
StepReturn ==
    /\ pc = "return"
    /\ result' = IF args.show THEN m ELSE NoMap
    /\ Advance
    /\ UNCHANGED <<callerGdf, gdfAtCall, optimized, args, gdf, data_min, data_max,
                   colormap, fields, aliases, m, saved, logVars>>

\* The call is over (returned or raised): its locals are gone, the caller
\* keeps the frame it passed and may call again
CallerResumes ==
    /\ pc \in {"done", "failed"}
    /\ pc' = "idle"
    /\ gdfAtCall' = callerGdf
    /\ args' = NoArgs
    /\ gdf' = <<>>
    /\ data_min' = NaN /\ data_max' = NaN
    /\ colormap' = NoColormap
    /\ fields' = <<>> /\ aliases' = <<>>
    /\ m' = NoMap
    /\ saved' = NoSave
    /\ result' = NoMap
    /\ err' = "" /\ failedAt' = ""
    /\ UNCHANGED <<callerGdf, optimized, logVars>>

----------------------------------------------------------------------------
(* Specification of create_interactive_map *)

Init ==
    /\ \E f \in AllGdfs : callerGdf = FrameOf(f)
    /\ gdfAtCall = callerGdf
    /\ optimized \in BOOLEAN
    /\ args = NoArgs
    /\ pc = "idle"
    /\ gdf = <<>>
    /\ data_min = NaN /\ data_max = NaN
    /\ colormap = NoColormap
    /\ fields = <<>> /\ aliases = <<>>
    /\ m = NoMap
    /\ saved = NoSave
    /\ result = NoMap
    /\ err = "" /\ failedAt = ""
    /\ handlers = <<>>
    /\ fhCalls = 0

Next ==
    \/ Call
    \/ StepDropNa
    \/ StepRound
    \/ StepMinMax
    \/ StepPalette
    \/ StepQuantiles
    \/ StepSteps
    \/ StepTooltip
    \/ StepMap
    \/ StepGeoJson
    \/ StepLegend
    \/ StepLayerControl
    \/ StepTitle
    \/ StepSave
    \/ StepReturn
    \/ CallerResumes

Spec == Init /\ [][Next]_vars

----------------------------------------------------------------------------
(* Properties of create_interactive_map *)

Missing(rows, col) == {i \in DOMAIN rows : IsNaN(rows[i][col])}
Geometries(rows) == {rows[i]["geometry"] : i \in DOMAIN rows}
Running == pc # "idle"
AfterScale == {"tooltip", "map", "geojson", "legend", "layercontrol", "title",
               "save", "return", "done"}
AfterTooltip == AfterScale \ {"tooltip"}
Decorated == m.legend.kind # "none" \/ m.layerControl \/ m.title # ""
Complete ==
    /\ m.created /\ m.tiles = "nlmaps.luchtfoto" /\ m.overlays = <<"nlmaps.water">>
    /\ m.data.present
    /\ m.legend.kind # "none" /\ m.legend.caption = args.legend_label
    /\ m.layerControl
    /\ m.title = args.title

\* C1: during and after a call the caller's collection holds exactly the
\* records it held when the call was entered.
CE_C1_CallerFrameUntouched ==
    Running => callerGdf = gdfAtCall

\* C2: the data layer of the map holds exactly the records of the input whose
\* value is not missing, each once: none with a missing value, and as many as
\* count(F) minus the number of records with a missing value.
Thm_C2_LayerIsCleanedInput ==
    m.data.present =>
        /\ Geometries(m.data.rows) =
              Geometries(gdfAtCall) \ {gdfAtCall[i]["geometry"] :
                                          i \in Missing(gdfAtCall, args.datacolumn)}
        /\ Len(m.data.rows) =
              Len(gdfAtCall) - Cardinality(Missing(gdfAtCall, args.datacolumn))
        /\ Cardinality(Geometries(m.data.rows)) = Len(m.data.rows)

Wit_C2_RowsDroppedAndRendered ==
    /\ pc = "done"
    /\ m.data.present
    /\ Len(m.data.rows) > 0
    /\ Missing(gdfAtCall, args.datacolumn) # {}
    /\ IsGiven(args.tooltip_columns)

\* C3: when every record of the input has a missing value (an empty input
\* included), the call fails with an empty-dataset error: it never attaches a
\* data layer, saves a file or returns.
CE_C3_EmptyDatasetFails ==
    (Running /\ Missing(gdfAtCall, args.datacolumn) = DOMAIN gdfAtCall) =>
        /\ ~m.data.present
        /\ ~saved.written
        /\ pc # "done"

\* C4: the colour domain is the minimum and maximum of the cleaned, un-rounded
\* value column.
CE_C4_DomainUnrounded ==
    colormap.kind # "none" =>
        LET clean == Column(DropNa(gdfAtCall, args.datacolumn), args.datacolumn)
        IN  /\ colormap.vmin = SeriesMin(clean)
            /\ colormap.vmax = SeriesMax(clean)

\* C5: the final scale is the quantile-stepped one when quantiles are given
\* (with or without step_count), else the evenly stepped one when step_count
\* is given, else the continuous one; combining the two is no error.
CE_C5_ScalePriority ==
    /\ pc \in AfterScale =>
          IF IsGiven(args.quantiles)
          THEN /\ colormap.kind = "step" /\ colormap.method = "quantiles"
               /\ colormap.quantiles = Get(args.quantiles)
          ELSE IF IsGiven(args.colormap_steps)
          THEN /\ colormap.kind = "step" /\ colormap.method = "linear"
               /\ colormap.n = Get(args.colormap_steps)
          ELSE colormap.kind = "linear"
    /\ pc = "failed" => failedAt # "steps"

\* C6: a tooltip_aliases list whose length differs from the number of fields
\* in effect makes the call fail without a map; a tooltip has one alias per
\* field.
CE_C6_AliasMismatchFails ==
    /\ m.data.present => Len(m.data.fields) = Len(m.data.aliases)
    /\ (Running /\ IsGiven(args.tooltip_aliases)
          /\ Len(Get(args.tooltip_aliases)) #
               (IF IsGiven(args.tooltip_columns) THEN Len(Get(args.tooltip_columns)) ELSE 1))
         => pc # "done"

\* C7: a completed call has written the whole map to output_path if and only
\* if an output_path was given (a string or a path object).
CE_C7_SavedIffPathGiven ==
    pc = "done" =>
        /\ saved.written <=> IsGiven(args.output_path)
        /\ saved.written => /\ saved.path = Get(args.output_path).path
                            /\ saved.artifact = m

CE_C9_DefaultAliases ==
    (pc \in AfterTooltip /\ ~IsGiven(args.tooltip_aliases)) =>
        /\ aliases = (IF Len(fields) = 1 THEN <<args.legend_label>> ELSE fields)
        /\ Len(aliases) = Len(fields)

----------------------------------------------------------------------------
(* logger.py: the handlers of one logger *)

MaxFhCalls == 3

LogFiles == {"a.log", "b.log"}

\* The filepath argument: a str or a Path, written absolute or relative,
\* naming one of the files
FilePaths == [type : {"str", "Path"}, abs : BOOLEAN, file : LogFiles]

FileHandlerClasses == {"FileHandler", "RotatingFileHandler"}

\* line 151: Path(handler.stream.name) == filepath. The stream's name is the
\* absolute path the handler opened; a Path equals only a Path, and only one
\* with the same parts.
SamePath(handler, filepath) ==
    /\ filepath.type = "Path"
    /\ filepath.abs
    /\ filepath.file = handler.file

\* lines 150-151
IsPresentFor(handler, filepath) ==
    /\ handler.cls \in FileHandlerClasses
    /\ SamePath(handler, filepath)

RemoveAt(hs, i) == SubSeq(hs, 1, i - 1) \o SubSeq(hs, i + 1, Len(hs))

\* lines 149-153: for handler in logger.handlers, with logger.removeHandler
\* taking the handler out of the very list the loop walks: the loop goes on
\* at the next index of the shortened list
RECURSIVE RemoveLoop(_, _, _)
RemoveLoop(hs, i, filepath) ==
    IF i > Len(hs) THEN hs
    ELSE IF IsPresentFor(hs[i], filepath)
         THEN RemoveLoop(RemoveAt(hs, i), i + 1, filepath)
         ELSE RemoveLoop(hs, i + 1, filepath)

\* lines 156-164: the handler opens str(filepath), whatever form it came in
NewFileHandler(id, filepath, rotate) ==
    [id |-> id,
     cls |-> IF rotate THEN "RotatingFileHandler" ELSE "FileHandler",
     file |-> filepath.file,
     fmt |-> "file"]

\* add_file_handler(logger, filepath, rotate=...)
AddFileHandler ==
    /\ fhCalls < MaxFhCalls
    /\ \E filepath \in FilePaths, rotate \in BOOLEAN :
          handlers' = Append(RemoveLoop(handlers, 1, filepath),
                             NewFileHandler(fhCalls + 1, filepath, rotate))
    /\ fhCalls' = fhCalls + 1
    /\ UNCHANGED mapVars

\* line 198: isinstance(handler, logging.StreamHandler); FileHandler and
\* RotatingFileHandler are StreamHandlers
IsStreamHandler(handler) ==
    handler.cls \in {"StreamHandler"} \cup FileHandlerClasses

\* get_logger(name, fmt=..., propagate=False) with a format of its own:
\* _add_or_update_streamhandler_format sets the formatter of every
\* StreamHandler of the logger, and adds one to sys.stdout when there is none
UpdateStreamHandlerFormat ==
    /\ \E fmt \in {"custom1", "custom2"} :
          IF \E i \in DOMAIN handlers : IsStreamHandler(handlers[i])
          THEN handlers' = [i \in DOMAIN handlers |->
                               IF IsStreamHandler(handlers[i])
                               THEN [handlers[i] EXCEPT !.fmt = fmt]
                               ELSE handlers[i]]
          ELSE handlers' = Append(handlers,
                               [id |-> 0, cls |-> "StreamHandler",
                                file |-> "<stdout>", fmt |-> fmt])
    /\ UNCHANGED <<fhCalls, mapVars>>

InitLog ==
    /\ callerGdf = <<>>
    /\ gdfAtCall = <<>>
    /\ optimized = FALSE
    /\ args = NoArgs
    /\ pc = "idle"
    /\ gdf = <<>>
    /\ data_min = NaN /\ data_max = NaN
    /\ colormap = NoColormap
    /\ fields = <<>> /\ aliases = <<>>
    /\ m = NoMap
    /\ saved = NoSave
    /\ result = NoMap
    /\ err = "" /\ failedAt = ""
    /\ handlers = <<>>
    /\ fhCalls = 0

NextLog ==
    \/ AddFileHandler
    \/ UpdateStreamHandlerFormat

SpecLog == InitLog /\ [][NextLog]_vars

FileHandlersOf(file) ==
    {i \in DOMAIN handlers :
        handlers[i].cls \in FileHandlerClasses /\ handlers[i].file = file}

\* C10: after any sequence of add_file_handler calls the logger holds at most
\* one FileHandler/RotatingFileHandler per file, the one the latest call for
\* that file added.
CE_C10_OneFileHandlerPerPath ==
    \A file \in LogFiles : Cardinality(FileHandlersOf(file)) <= 1

----------------------------------------------------------------------------
(* The features handed to the data layer *)

\* C11: when the call reaches layer composition, every feature handed to
\* folium.GeoJson has the value column among its properties, so the style
\* function of line 117 is defined on it; the layer is never refused for a
\* missing value property.
CE_C11_FeaturesCarryValueColumn ==
    /\ pc = "geojson" =>
          \A i \in DOMAIN gdf : args.datacolumn \in DOMAIN gdf[i]
    /\ pc = "failed" /\ failedAt = "geojson" => err # "KeyError"

====
